---- MODULE Spec2Model ----
(***************************************************************************)
(* lion-os operations: brainstorm (concurrent fan-out over forked          *)
(* branches), plan (sequential steps on one branch) and select.            *)
(*                                                                         *)
(* Scheduling is cooperative: a task runs from one await of branch.operate *)
(* to the next without interruption, so every action below is the code     *)
(* between two suspension points.                                          *)
(***************************************************************************)
EXTENDS Integers, Sequences, FiniteSets, TLC

\* Largest number of nested instructions one operate result carries.
MaxNested == 2

\* Largest number of branches Session.split creates in one operation.
MaxForks == 3

\* Largest number of choices given to select.
MaxChoices == 3

\* Largest number of tokens in the `selected` list of a response.
MaxSelected == 2

VARIABLES
    op,         \* the operation called: "brainstorm", "plan" or "select"
    args,       \* its arguments (instruct as the code has reassigned it)
    pc,         \* where the operation's own coroutine stands
    members,    \* session.branches: identities of the member branches
    created,    \* identities of all branches that exist
    branch,     \* the local variable `branch` of the operation (0: unusable)
    res1,       \* the initial operate result
    task,       \* one record per nested instruction, indexed by its path
    calls,      \* operate calls issued, per instruction path
    dumps,      \* branch.msgs.logger.dump() calls, per instruction path
    forks,      \* Session.split calls made
    locked,     \* session.branches is held by `async with`
    results,    \* plan's local list `results`
    arrival,    \* history: brainstorm's runs in the order they ended
    call,       \* a FunctionCalling: status, execution_response, ...
    message,    \* a System message: content, sender, recipient
    contenders, \* the brainstorm calls that share one session
    ret         \* outcome of the operation

vars == <<op, args, pc, members, created, branch, res1, task, calls, dumps,
          forks, locked, results, arrival, call, message, contenders, ret>>

----------------------------------------------------------------------------
\* Instructions are named by their place in the tree of nested instructions:
\* <<>> is the instruction given to the operation, <<i>> the i-th nested
\* instruction of its result, <<i, j>> the j-th nested instruction of the
\* result of <<i>>.  The result of the operate call for instruction p is
\* named p as well.

Idx == 1..MaxNested

Paths == {<<>>} \cup {<<i>> : i \in Idx} \cup {<<i, j>> : i \in Idx, j \in Idx}

SubPaths == Paths \ {<<>>}

Parent(p) == SubSeq(p, 1, Len(p) - 1)

\* An operate result: `has` is hasattr(res, "instruct_models"), `n` the
\* length of res.instruct_models.
Responses == {[has |-> FALSE, n |-> 0]} \cup {[has |-> TRUE, n |-> k] : k \in 0..MaxNested}

NoResponse == [has |-> FALSE, n |-> 0]

\* A Python value returned by a runner: one result, or a list of results.
Single(p) == [list |-> FALSE, items |-> <<p>>]

List(s) == [list |-> TRUE, items |-> s]

NoValue == [list |-> FALSE, items |-> <<>>]

NoTask == [st |-> "none", branch |-> 0, auto |-> FALSE, res |-> NoResponse,
           out |-> NoValue, err |-> <<>>]

\* No FunctionCalling and no System message is part of the operation.
NoCall == [status |-> "none"]

NoMessage == [role |-> "none"]

\* The operation is the only one on its session.
NoContenders == <<>>

NoRet == [kind |-> "none", val |-> NoValue, session |-> FALSE, err |-> <<>>]

Value(v, withSession) == [kind |-> "value", val |-> v, session |-> withSession, err |-> <<>>]

Error(e) == [kind |-> "error", val |-> NoValue, session |-> FALSE, err |-> e]

\* Exceptions: the type, and for a failed operate call the instruction.
ValueError == <<"ValueError">>

LookupError == <<"ItemNotFoundError">>

OperateError(p) == <<"OperateError", p>>

NotImplementedError == <<"NotImplementedError">>

----------------------------------------------------------------------------
\* Session and branch registry.

\* The branches that exist, and the members of the session, when the
\* operation is called.
ExistingBranches == {1, 2}

InitMembers(a) == IF a.session = "given" THEN {1} ELSE {}

\* The argument `branch`: none, a member of the session, or a branch that is
\* not a member of the session.
BranchArg(a) ==
    CASE a.branch = "member" -> 1
      [] a.branch = "foreign" -> 2
      [] OTHER -> 0

\* Session(): a session with no member yet.
NewSession == {}

\* Session.new_branch(): creates a branch and registers it as a member.
NewBranch(mem, cr) ==
    LET b == 1 + Cardinality(cr)
    IN  [b |-> b, members |-> mem \cup {b}, created |-> cr \cup {b}, forks |-> 0]

\* Session.split(src): creates a fork of src and registers it as a member.
Split(src, mem, cr) ==
    LET b == 1 + Cardinality(cr)
    IN  [b |-> b, members |-> mem \cup {b}, created |-> cr \cup {b}, forks |-> 1]

\* Mutant: the nested instruction is run on the branch of its parent.
RunForkShared(src, mem, cr) ==
    [b |-> src, members |-> mem, created |-> cr, forks |-> 0]

\* Mutant: the fork is made (branch.clone()) and never registered.
RunForkUnregistered(src, mem, cr) ==
    LET b == 1 + Cardinality(cr)
    IN  [b |-> b, members |-> mem, created |-> cr \cup {b}, forks |-> 1]

\* `b_ = session.split(branch)` of the closures `run`: the branch a nested
\* instruction is run on.
RunFork(src, mem, cr) == Split(src, mem, cr)

\* session.branches[ref]: the member, or a lookup error (0).
Lookup(mem, ref) == IF ref \in mem THEN ref ELSE 0

----------------------------------------------------------------------------
\* Fan-in.

\* alcall(instructs, run) once every call has ended: the results in the
\* order of `instructs`.
Gathered(p, n) == [i \in 1..n |-> task[p \o <<i>>].out]

Finished(p, n) == \A i \in 1..n : task[p \o <<i>>].st \in {"done", "failed"}

AnyFailed(p, n) == \E i \in 1..n : task[p \o <<i>>].st = "failed"

\* alcall fails with the failure of the first call, in input order, that failed.
FirstError(p, n) ==
    LET i == CHOOSE i \in 1..n :
                 /\ task[p \o <<i>>].st = "failed"
                 /\ \A j \in 1..(i - 1) : task[p \o <<j>>].st # "failed"
    IN  task[p \o <<i>>].err

\* for res in ress: extend response_ by a list, append anything else.
RECURSIVE Flatten(_)
Flatten(ress) ==
    IF ress = <<>> THEN <<>>
    ELSE LET r == Head(ress)
         IN  (IF r.list THEN r.items ELSE <<r.items[1]>>) \o Flatten(Tail(ress))

\* The value of the loop variable `res` of run_instruct after
\* `for res in ress:`: the loop rebinds the name that held the operate result.
LoopVariable(res, ress) ==
    IF ress = <<>> THEN res ELSE ress[Len(ress)].items[1]

\* run_instruct's expansion: response_.insert(0, res); return response_.
RunInstructExpand(res, ress) ==
    List(<<LoopVariable(res, ress)>> \o Flatten(ress))

\* Mutant: every result is put at the front of response_.
RECURSIVE Prepended(_)
Prepended(ress) ==
    IF ress = <<>> THEN <<>>
    ELSE Prepended(Tail(ress)) \o
         (IF Head(ress).list THEN Head(ress).items ELSE <<Head(ress).items[1]>>)

BrainstormExpandPrepending(res, ress) == List(<<res>> \o Prepended(ress))

\* brainstorm's expansion: response_.insert(0, res1); return response_.
BrainstormExpand(res, ress) == List(<<res>> \o Flatten(ress))

----------------------------------------------------------------------------
\* The calls made.

\* (session, branch) as a caller can pass them.
SessionBranchArgs ==
    {<<"given", "none">>, <<"given", "member">>, <<"given", "foreign">>,
     <<"none", "none">>, <<"none", "foreign">>}

\* instruct: an InstructModel, a dict, or anything else.
InstructArgs == {"InstructModel", "dict", "other"}

OperationCalls ==
    {[auto_run |-> ar, return_session |-> rs, instruct |-> ins,
      session |-> sb[1], branch |-> sb[2]] :
        ar \in BOOLEAN, rs \in BOOLEAN, ins \in InstructArgs,
        sb \in SessionBranchArgs}

Init ==
    /\ op \in {"brainstorm", "plan"}
    /\ args \in OperationCalls
    /\ pc = "start"
    /\ members = InitMembers(args)
    /\ created = ExistingBranches
    /\ branch = 0
    /\ res1 = NoResponse
    /\ task = [p \in SubPaths |-> NoTask]
    /\ calls = [p \in Paths |-> 0]
    /\ dumps = [p \in Paths |-> 0]
    /\ forks = 0
    /\ locked = FALSE
    /\ results = <<>>
    /\ arrival = <<>>
    /\ call = NoCall
    /\ message = NoMessage
    /\ contenders = NoContenders
    /\ ret = NoRet

----------------------------------------------------------------------------
\* brainstorm.

\* Lines 108-119: the session and the branch brainstorm works on.  ok is
\* FALSE when session.branches[branch] raises.
BrainstormResolve(a, mem, cr) ==
    IF a.session = "given"
    THEN IF a.branch # "none"
         THEN LET b == Lookup(mem, BranchArg(a))
              IN  [ok |-> b # 0, b |-> b, members |-> mem, created |-> cr]
         ELSE LET n == NewBranch(mem, cr)
              IN  [ok |-> TRUE, b |-> n.b, members |-> n.members, created |-> n.created]
    ELSE IF a.branch = "foreign"
         THEN [ok |-> TRUE, b |-> BranchArg(a),
               members |-> NewSession \cup {BranchArg(a)}, created |-> cr]
         ELSE LET n == NewBranch(NewSession, cr)
              IN  [ok |-> TRUE, b |-> n.b, members |-> n.members, created |-> n.created]

\* Lines 121-122: `instruct = instruct.clean_dump()` for an InstructModel.
InstructDumped(a) ==
    [a EXCEPT !.instruct = IF @ = "InstructModel" THEN "dict" ELSE @]

\* Lines 123-126: what is then no dict is refused.
InstructValid(a) == InstructDumped(a).instruct = "dict"

\* brainstorm, from its call to its first await (line 131) or to the
\* exception it raises before.
BrainstormStart ==
    /\ op = "brainstorm"
    /\ pc = "start"
    /\ LET r == BrainstormResolve(args, members, created)
       IN  IF ~r.ok
           THEN /\ ret' = Error(LookupError)
                /\ pc' = "done"
                /\ UNCHANGED <<args, members, created, branch, calls>>
           ELSE /\ members' = r.members
                /\ created' = r.created
                /\ branch' = r.b
                /\ args' = InstructDumped(args)
                /\ IF InstructValid(args)
                   THEN /\ calls' = [calls EXCEPT ![<<>>] = @ + 1]
                        /\ pc' = "initial"
                        /\ UNCHANGED ret
                   ELSE /\ ret' = Error(ValueError)
                        /\ pc' = "done"
                        /\ UNCHANGED calls
    /\ UNCHANGED <<contenders, call, message, arrival, op, res1, task, dumps, forks, locked, results>>

\* Nested instructions whose run has been set up.
Planned == Cardinality({p \in SubPaths : task[p].st # "none"})

\* alcall(instructs, run) begins: one run per nested instruction.
Spawn(t, p, n, auto) ==
    [q \in SubPaths |->
        IF \E i \in 1..n : q = p \o <<i>>
        THEN [NoTask EXCEPT !.st = "ready", !.auto = auto]
        ELSE t[q]]

\* Mutant: the early return is missing.
BrainstormNeverReturnsInitial(a) == FALSE

\* Lines 143-144: `if not auto_run: return res1`.
BrainstormReturnsInitial(a) == ~a.auto_run

\* brainstorm resumes with the initial operate result (lines 131-166).
BrainstormInitialReturn ==
    /\ op = "brainstorm"
    /\ pc = "initial"
    /\ \E r \in Responses :
        /\ res1' = r
        /\ IF BrainstormReturnsInitial(args)
           THEN /\ ret' = Value(Single(<<>>), FALSE)
                /\ pc' = "done"
                /\ UNCHANGED <<task, locked>>
           ELSE IF r.has
                THEN IF r.n = 0
                     THEN /\ ret' = Value(BrainstormExpand(<<>>, <<>>), args.return_session)
                          /\ pc' = "done"
                          /\ UNCHANGED <<task, locked>>
                     ELSE /\ r.n <= MaxForks
                          /\ task' = Spawn(task, <<>>, r.n, args.auto_run)
                          /\ locked' = TRUE
                          /\ pc' = "gather"
                          /\ UNCHANGED ret
                ELSE /\ ret' = Value(Single(<<>>), args.return_session)
                     /\ pc' = "done"
                     /\ UNCHANGED <<task, locked>>
    /\ UNCHANGED <<contenders, call, message, arrival, op, args, members, created, branch, calls, dumps, forks, results>>

\* The initial operate call of brainstorm raises: nothing catches it.
BrainstormInitialFail ==
    /\ op = "brainstorm"
    /\ pc = "initial"
    /\ ret' = Error(OperateError(<<>>))
    /\ pc' = "done"
    /\ UNCHANGED <<contenders, call, message, arrival, op, args, members, created, branch, res1, task, calls, dumps,
                   forks, locked, results>>

\* The branch the closure `run` of instruction p forks: brainstorm's `branch`
\* (line 138), or the `branch` argument of the enclosing run_instruct (line 47).
SourceBranch(p) == IF Len(p) = 1 THEN branch ELSE task[Parent(p)].branch

\* `run(ins_)` starts: it forks, enters run_instruct and awaits operate
\* (lines 137-141 or 46-48, then 40-51).
RunStart(p) ==
    /\ op = "brainstorm"
    /\ task[p].st = "ready"
    /\ LET f == RunFork(SourceBranch(p), members, created)
       IN  /\ members' = f.members
           /\ created' = f.created
           /\ forks' = forks + f.forks
           /\ task' = [task EXCEPT ![p].st = "inflight", ![p].branch = f.b]
    /\ calls' = [calls EXCEPT ![p] = @ + 1]
    /\ UNCHANGED <<contenders, call, message, arrival, op, args, pc, branch, res1, dumps, locked, results, ret>>

\* The history of ended runs, with the run of p ended.
Ended(p) == IF Len(p) = 1 THEN Append(arrival, p) ELSE arrival

\* Mutant: run_instruct never runs the nested instructions of its result.
ExpandsNever(auto, r) == FALSE

\* Line 58: run_instruct runs the nested instructions of its result.
Expands(auto, r) == auto /\ r.has /\ r.n > 0

\* Mutant: the nested runs inherit auto_run.
NestedAutoRunInherited(auto) == auto

\* Line 48: the closure `run` of run_instruct passes auto_run=False.
NestedAutoRun(auto) == FALSE

\* run_instruct resumes with its operate result (lines 51-69).
RunInstructReturn(p) ==
    /\ op = "brainstorm"
    /\ task[p].st = "inflight"
    /\ \E r \in Responses :
        /\ dumps' = [dumps EXCEPT ![p] = @ + 1]
        /\ IF Expands(task[p].auto, r)
           THEN /\ Planned + r.n <= MaxForks
                /\ task' = [Spawn(task, p, r.n, NestedAutoRun(task[p].auto)) EXCEPT
                                ![p].st = "gather", ![p].res = r]
                /\ UNCHANGED arrival
           ELSE /\ task' = [task EXCEPT ![p].st = "done", ![p].res = r,
                                        ![p].out = Single(p)]
                /\ arrival' = Ended(p)
    /\ UNCHANGED <<contenders, call, message, op, args, pc, members, created, branch, res1, calls, forks,
                   locked, results, ret>>

\* Mutant: a failed operate call is issued again, once.
RunInstructRetry(p) ==
    /\ op = "brainstorm"
    /\ task[p].st = "inflight"
    /\ calls[p] < 2
    /\ calls' = [calls EXCEPT ![p] = @ + 1]
    /\ UNCHANGED <<contenders, call, message, arrival, op, args, pc, members, created, branch, res1, task,
                   dumps, forks, locked, results, ret>>

\* The operate call of run_instruct raises (line 51): nothing catches it.
RunInstructFail(p) ==
    /\ op = "brainstorm"
    /\ task[p].st = "inflight"
    /\ task' = [task EXCEPT ![p].st = "failed", ![p].err = OperateError(p)]
    /\ arrival' = Ended(p)
    /\ UNCHANGED <<contenders, call, message, op, args, pc, members, created, branch, res1, calls, dumps,
                   forks, locked, results, ret>>

\* run_instruct resumes from `await alcall(instructs, run)` (lines 59-67).
RunInstructGather(p) ==
    /\ op = "brainstorm"
    /\ task[p].st = "gather"
    /\ Finished(p, task[p].res.n)
    /\ IF AnyFailed(p, task[p].res.n)
       THEN task' = [task EXCEPT ![p].st = "failed",
                                 ![p].err = FirstError(p, task[p].res.n)]
       ELSE task' = [task EXCEPT ![p].st = "done",
                                 ![p].out = RunInstructExpand(p, Gathered(p, task[p].res.n))]
    /\ arrival' = Ended(p)
    /\ UNCHANGED <<contenders, call, message, op, args, pc, members, created, branch, res1, calls, dumps,
                   forks, locked, results, ret>>

\* brainstorm resumes from `await alcall(instructs, run)` (lines 149-161);
\* leaving `async with session.branches` releases it, by return or by raise.
BrainstormGather ==
    /\ op = "brainstorm"
    /\ pc = "gather"
    /\ Finished(<<>>, res1.n)
    /\ IF AnyFailed(<<>>, res1.n)
       THEN ret' = Error(FirstError(<<>>, res1.n))
       ELSE ret' = Value(BrainstormExpand(<<>>, Gathered(<<>>, res1.n)),
                         args.return_session)
    /\ locked' = FALSE
    /\ pc' = "done"
    /\ UNCHANGED <<contenders, call, message, arrival, op, args, members, created, branch, res1, task, calls, dumps,
                   forks, results>>

----------------------------------------------------------------------------
\* plan.

\* Lines 76-77: `session or Session()`, `branch or session.new_branch()`.
\* A branch that is passed is used as it is: neither looked up in the
\* session nor registered in it.
PlanResolve(a, mem, cr) ==
    LET m == IF a.session = "given" THEN mem ELSE NewSession
    IN  IF a.branch # "none"
        THEN [ok |-> TRUE, b |-> BranchArg(a), members |-> m, created |-> cr]
        ELSE LET n == NewBranch(m, cr)
             IN  [ok |-> TRUE, b |-> n.b, members |-> n.members, created |-> n.created]

\* plan, from its call to its first await (line 89) or to the exception it
\* raises before.
PlanStart ==
    /\ op = "plan"
    /\ pc = "start"
    /\ LET r == PlanResolve(args, members, created)
       IN  /\ members' = r.members
           /\ created' = r.created
           /\ branch' = r.b
    /\ args' = InstructDumped(args)
    /\ IF InstructValid(args)
       THEN /\ calls' = [calls EXCEPT ![<<>>] = @ + 1]
            /\ pc' = "initial"
            /\ UNCHANGED ret
       ELSE /\ ret' = Error(ValueError)
            /\ pc' = "done"
            /\ UNCHANGED calls
    /\ UNCHANGED <<contenders, call, message, arrival, op, res1, task, dumps, forks, locked, results>>

\* run_step(ins, session, branch) up to its await (lines 30-36): the step
\* is run on plan's own branch.
StepIssued(t, i) ==
    [t EXCEPT ![<<i>>] = [NoTask EXCEPT !.st = "inflight", !.branch = branch]]

\* plan resumes with the initial operate result (lines 89-104).
PlanInitialReturn ==
    /\ op = "plan"
    /\ pc = "initial"
    /\ \E r \in Responses :
        /\ res1' = r
        /\ IF ~args.auto_run
           THEN /\ ret' = Value(Single(<<>>), args.return_session)
                /\ pc' = "done"
                /\ UNCHANGED <<task, calls, results>>
           ELSE IF r.has /\ r.n > 0
                THEN /\ results' = <<<<>>>>
                     /\ task' = StepIssued(task, 1)
                     /\ calls' = [calls EXCEPT ![<<1>>] = @ + 1]
                     /\ pc' = "steps"
                     /\ UNCHANGED ret
                ELSE /\ results' = <<<<>>>>
                     /\ ret' = Value(List(results'), args.return_session)
                     /\ pc' = "done"
                     /\ UNCHANGED <<task, calls>>
    /\ UNCHANGED <<contenders, call, message, arrival, op, args, members, created, branch, dumps, forks, locked>>

\* The initial operate call of plan raises: nothing catches it.
PlanInitialFail ==
    /\ op = "plan"
    /\ pc = "initial"
    /\ ret' = Error(OperateError(<<>>))
    /\ pc' = "done"
    /\ UNCHANGED <<contenders, call, message, arrival, op, args, members, created, branch, res1, task, calls, dumps,
                   forks, locked, results>>

\* The step plan is awaiting: results holds res1 and the results of the
\* steps before it.
CurrentStep == Len(results)

\* Mutant: results.insert(0, res).
StepInserted(rs, i) == <<<<i>>>> \o rs

\* Line 105: results.append(res).
StepAppended(rs, i) == Append(rs, <<i>>)

\* run_step resumes with its operate result, plan appends it and goes on
\* with the next step or returns (lines 36-38, 101-111).
PlanStepReturn ==
    /\ op = "plan"
    /\ pc = "steps"
    /\ LET i == CurrentStep
       IN  \E r \in Responses :
            /\ dumps' = [dumps EXCEPT ![<<i>>] = @ + 1]
            /\ results' = StepAppended(results, i)
            /\ IF i < res1.n
               THEN /\ task' = StepIssued([task EXCEPT ![<<i>>].st = "done",
                                                       ![<<i>>].res = r,
                                                       ![<<i>>].out = Single(<<i>>)],
                                          i + 1)
                    /\ calls' = [calls EXCEPT ![<<i + 1>>] = @ + 1]
                    /\ UNCHANGED <<pc, ret>>
               ELSE /\ task' = [task EXCEPT ![<<i>>].st = "done",
                                            ![<<i>>].res = r,
                                            ![<<i>>].out = Single(<<i>>)]
                    /\ ret' = Value(List(results'), args.return_session)
                    /\ pc' = "done"
                    /\ UNCHANGED calls
    /\ UNCHANGED <<contenders, call, message, arrival, op, args, members, created, branch, res1, forks, locked>>

\* The operate call of run_step raises (line 36): nothing catches it.
PlanStepFail ==
    /\ op = "plan"
    /\ pc = "steps"
    /\ task' = [task EXCEPT ![<<CurrentStep>>].st = "failed",
                            ![<<CurrentStep>>].err = OperateError(<<CurrentStep>>)]
    /\ ret' = Error(OperateError(<<CurrentStep>>))
    /\ pc' = "done"
    /\ UNCHANGED <<contenders, call, message, arrival, op, args, members, created, branch, res1, calls, dumps,
                   forks, locked, results>>

----------------------------------------------------------------------------
\* select.

\* Strings are sequences of letters.
Red == <<"r", "e", "d">>

Green == <<"g", "r", "e", "e", "n">>

Blue == <<"b", "l", "u", "e">>

Grey == <<"g", "r", "e", "y">>

\* The key of the i-th choice: the string itself, the class name of a model
\* or of a model class, the key of a dict item, the name of an Enum member.
Palette == <<Red, Green, Blue, Grey, Red>>

Name(i) == Palette[i]

\* What a choice is: a string, a BaseModel instance, a BaseModel subclass,
\* or an unrelated object.
ElemTypes == {"str", "BaseModel", "class", "other"}

\* What `choices` is: a list, tuple or set of choices, a dict or an Enum
\* class whose values are choices, or something else.
Iterables == {"list", "tuple", "set"}

Collections == Iterables \cup {"dict", "Enum", "other"}

RECURSIVE SeqsUpTo(_, _)
SeqsUpTo(S, n) ==
    IF n = 0 THEN {<<>>}
    ELSE LET shorter == SeqsUpTo(S, n - 1)
         IN  shorter \cup {Append(q, x) : q \in shorter, x \in S}

Choices ==
    {[coll |-> c, types |-> t] : c \in Collections \ {"other"},
                                 t \in SeqsUpTo(ElemTypes, MaxChoices)}
    \cup {[coll |-> "other", types |-> <<>>]}

Names(ch) == [i \in 1..Len(ch.types) |-> Name(i)]

\* is_same_dtype(input_, dtype): every element is an instance of dtype.
IsSameDtype(types, t) == \A i \in 1..Len(types) : types[i] = t

\* all(inspect.isclass(i) and issubclass(i, BaseModel) for i in choices):
\* iterating a dict yields its keys, which are strings.
AllModelClasses(ch) ==
    IF ch.coll = "dict" THEN ch.types = <<>>
    ELSE \A i \in 1..Len(ch.types) : ch.types[i] = "class"

\* get_choice_representation: the string, the schema of a model, the
\* representation of the value of an Enum member, else None.
GetChoiceRepresentation(t) ==
    CASE t = "str" -> "text"
      [] t = "BaseModel" -> "schema"
      [] OTHER -> "None"

Normalized(keys, contents) == [ok |-> TRUE, keys |-> keys, contents |-> contents]

NotNormalized == [ok |-> FALSE, keys |-> <<>>, contents |-> <<>>]

Representations(ch) ==
    [i \in 1..Len(ch.types) |-> GetChoiceRepresentation(ch.types[i])]

\* Mutant: the final `raise NotImplementedError` is missing.
ParseToRepresentationLenient(ch) == Normalized(Names(ch), Representations(ch))

\* parse_to_representation(choices): (keys, contents), or NotImplementedError.
ParseToRepresentation(ch) ==
    LET c1 == IF ch.coll \in Iterables THEN [ch EXCEPT !.coll = "list"] ELSE ch
    IN  IF ch.coll \in Iterables /\ IsSameDtype(c1.types, "str")
        THEN Normalized(Names(c1), Names(c1))
        ELSE LET c2 == IF c1.coll = "list" /\ IsSameDtype(c1.types, "BaseModel")
                       THEN [c1 EXCEPT !.coll = "dict"] ELSE c1
                 c3 == IF c1.coll = "list" /\ AllModelClasses(c2)
                       THEN [c2 EXCEPT !.coll = "dict"] ELSE c2
             IN  IF c3.coll = "Enum" THEN Normalized(Names(c3), Representations(c3))
                 ELSE IF c3.coll = "dict" THEN Normalized(Names(c3), Representations(c3))
                 ELSE IF c3.coll \in Iterables /\ IsSameDtype(c3.types, "str")
                      THEN Normalized(Names(c3), Names(c3))
                 ELSE NotNormalized

\* Letters of a that can be paired with equal letters of b.
RECURSIVE Overlap(_, _)
Overlap(a, b) ==
    IF a = <<>> THEN 0
    ELSE IF \E j \in 1..Len(b) : b[j] = Head(a)
         THEN LET j == CHOOSE j \in 1..Len(b) : b[j] = Head(a)
              IN  1 + Overlap(Tail(a), SubSeq(b, 1, j - 1) \o SubSeq(b, j + 1, Len(b)))
         ELSE Overlap(Tail(a), b)

Distance(a, b) == Len(a) + Len(b) - 2 * Overlap(a, b)

\* The tokens a response may hold in `selected`.
Gren == <<"g", "r", "e", "n">>

RawTokens == {Gren, Blue, <<"r", "d">>}

\* The distances of every token to every key.
Distances ==
    [a \in RawTokens, b \in {Palette[i] : i \in 1..Len(Palette)} |-> Distance(a, b)]

\* string_similarity(word, correct_words, return_most_similar=True): the
\* closest of correct_words, the first of them among equally close ones.
MostSimilar(word, words) ==
    LET d == [j \in 1..Len(words) |-> Distances[word, words[j]]]
        i == CHOOSE i \in 1..Len(words) :
                 \A j \in 1..Len(words) : d[i] < d[j] \/ (d[i] = d[j] /\ i <= j)
    IN  words[i]

\* The list select_from of parse_selection (lines 78-92).
SelectFrom(ch) ==
    IF ch.coll \in {"dict", "Enum"} THEN Names(ch)
    ELSE IF ch.coll \in Iterables
              /\ (\/ IsSameDtype(ch.types, "BaseModel")
                  \/ IsSameDtype(ch.types, "str")
                  \/ AllModelClasses(ch))
         THEN Names(ch)
         ELSE <<>>

\* What parse_selection returns for the chosen key (lines 99-111): the
\* value of a dict, the member of an Enum, else the key.
Selected(ch, key) ==
    CASE ch.coll = "dict" -> [kind |-> "value", key |-> key]
      [] ch.coll = "Enum" -> [kind |-> "member", key |-> key]
      [] OTHER -> [kind |-> "key", key |-> key]

\* Mutant: the token is returned as the model gave it.
ParseSelectionUncorrected(token, ch) == [ok |-> TRUE, sel |-> Selected(ch, token)]

\* parse_selection(selection_str, choices); ok is FALSE for its ValueError.
ParseSelection(token, ch) ==
    IF SelectFrom(ch) = <<>>
    THEN [ok |-> FALSE, sel |-> Selected(ch, <<>>)]
    ELSE [ok |-> TRUE, sel |-> Selected(ch, MostSimilar(token, SelectFrom(ch)))]

SelectCalls ==
    {[choices |-> ch, max_num_selections |-> k, branch |-> b, return_branch |-> rb] :
        ch \in Choices, k \in 1..MaxSelected, b \in {"none", "foreign"},
        rb \in BOOLEAN}

SelectInit ==
    /\ op = "select"
    /\ args \in SelectCalls
    /\ pc = "start"
    /\ members = {}
    /\ created = ExistingBranches
    /\ branch = 0
    /\ res1 = [selected |-> <<>>]
    /\ task = [p \in SubPaths |-> NoTask]
    /\ calls = [p \in Paths |-> 0]
    /\ dumps = [p \in Paths |-> 0]
    /\ forks = 0
    /\ locked = FALSE
    /\ results = <<>>
    /\ arrival = <<>>
    /\ call = NoCall
    /\ message = NoMessage
    /\ contenders = NoContenders
    /\ ret = NoRet

\* select, from its call to its await of operate (lines 51-81) or to the
\* exception parse_to_representation raises.
SelectStart ==
    /\ op = "select"
    /\ pc = "start"
    /\ IF args.branch = "none"
       THEN /\ branch' = 1 + Cardinality(created)
            /\ created' = created \cup {branch'}
       ELSE /\ branch' = BranchArg(args)
            /\ UNCHANGED created
    /\ IF ParseToRepresentation(args.choices).ok
       THEN /\ calls' = [calls EXCEPT ![<<>>] = @ + 1]
            /\ pc' = "initial"
            /\ UNCHANGED ret
       ELSE /\ ret' = Error(NotImplementedError)
            /\ pc' = "done"
            /\ UNCHANGED calls
    /\ UNCHANGED <<contenders, call, message, arrival, op, args, members, res1, task, dumps, forks, locked,
                   results>>

\* select resumes with the response (lines 81-108): every token of
\* response_model.selected is replaced by parse_selection's answer.
SelectReturn ==
    /\ op = "select"
    /\ pc = "initial"
    /\ LET parsed == [t \in RawTokens |-> ParseSelection(t, args.choices)]
       IN  \E raw \in SeqsUpTo(RawTokens, MaxSelected) :
            /\ res1' = [selected |-> raw]
            /\ IF \E i \in 1..Len(raw) : ~parsed[raw[i]].ok
               THEN ret' = Error(ValueError)
               ELSE ret' = Value(List([i \in 1..Len(raw) |-> parsed[raw[i]].sel]),
                                 args.return_branch)
    /\ pc' = "done"
    /\ UNCHANGED <<contenders, call, message, arrival, op, args, members, created, branch, task, calls, dumps,
                   forks, locked, results>>

\* The operate call of select raises (line 81): nothing catches it.
SelectFail ==
    /\ op = "select"
    /\ pc = "initial"
    /\ ret' = Error(OperateError(<<>>))
    /\ pc' = "done"
    /\ UNCHANGED <<contenders, call, message, arrival, op, args, members, created, branch, res1, task, calls,
                   dumps, forks, locked, results>>

SelectNext ==
    \/ SelectStart
    \/ SelectReturn
    \/ SelectFail

SelectSpec == SelectInit /\ [][SelectNext]_vars

----------------------------------------------------------------------------
\* FunctionCalling.invoke (core/action/function_calling.py).

\* What a function, a processor or a parser can hand back.
Payloads == {"a", "b"}

None == "None"

\* The tools invoke is given: with or without a pre-processor, a
\* post-processor and a parser, the parser a plain or a coroutine function.
Tools == [pre_processor : BOOLEAN, post_processor : BOOLEAN,
          parser : {"none", "sync", "async"}]

\* A FunctionCalling after construction.
NewCall == [status |-> "PENDING", execution_response |-> None,
            execution_error |-> None, execution_time |-> None]

Returned(v) == [kind |-> "returned", val |-> v]

InvokeInit ==
    /\ op = "invoke"
    /\ args \in [func_tool : Tools, arguments : Payloads]
    /\ pc = "start"
    /\ members = {}
    /\ created = {}
    /\ branch = 0
    /\ res1 = None
    /\ task = [p \in SubPaths |-> NoTask]
    /\ calls = [p \in Paths |-> 0]
    /\ dumps = [p \in Paths |-> 0]
    /\ forks = 0
    /\ locked = FALSE
    /\ results = <<>>
    /\ arrival = <<>>
    /\ call = NewCall
    /\ message = NoMessage
    /\ contenders = NoContenders
    /\ ret = NoRet

\* The except clause (lines 97-100): the failure is recorded and invoke
\* falls off its end, which returns None.
Except(e) ==
    /\ call' = [call EXCEPT !.status = "FAILED", !.execution_error = e,
                            !.execution_time = "wall"]
    /\ ret' = Returned(None)
    /\ pc' = "done"
    /\ UNCHANGED res1

\* Lines 86-95 once _inner has returned result: the outcome is recorded, then
\* a plain parser runs at once and a coroutine parser is awaited.
Recorded(result) ==
    LET done == [call EXCEPT !.status = "COMPLETED", !.execution_response = result,
                             !.execution_time = "elp"]
    IN  CASE args.func_tool.parser = "none" ->
                /\ call' = done
                /\ ret' = Returned(result)
                /\ pc' = "done"
                /\ UNCHANGED res1
          [] args.func_tool.parser = "async" ->
                /\ call' = done
                /\ res1' = result
                /\ pc' = "parser"
                /\ UNCHANGED ret
          [] args.func_tool.parser = "sync" ->
                \/ \E parsed \in Payloads :
                    /\ call' = done
                    /\ ret' = Returned(parsed)
                    /\ pc' = "done"
                    /\ UNCHANGED res1
                \/ /\ call' = [done EXCEPT !.status = "FAILED",
                                          !.execution_error = "parser",
                                          !.execution_time = "wall"]
                   /\ ret' = Returned(None)
                   /\ pc' = "done"
                   /\ UNCHANGED res1

InvokeFrame ==
    UNCHANGED <<op, args, members, created, branch, task, calls, dumps, forks,
                locked, results, arrival, message, contenders>>

\* invoke up to its first suspension (lines 63-85): the pre-processor of the
\* decorator if the tool has one, the function otherwise.
InvokeStart ==
    /\ op = "invoke"
    /\ pc = "start"
    /\ pc' = IF args.func_tool.pre_processor THEN "pre_processor" ELSE "function"
    /\ res1' = args.arguments
    /\ UNCHANGED <<call, ret>>
    /\ InvokeFrame

\* The pre-processor hands back the arguments the function is called with.
PreProcessorReturn ==
    /\ op = "invoke"
    /\ pc = "pre_processor"
    /\ \E kwargs \in Payloads : res1' = kwargs
    /\ pc' = "function"
    /\ UNCHANGED <<call, ret>>
    /\ InvokeFrame

PreProcessorFail ==
    /\ op = "invoke"
    /\ pc = "pre_processor"
    /\ Except("pre_processor")
    /\ InvokeFrame

\* tcall of the function returns (line 69).
FunctionReturn ==
    /\ op = "invoke"
    /\ pc = "function"
    /\ \E result \in Payloads :
        IF args.func_tool.post_processor
        THEN /\ res1' = result
             /\ pc' = "post_processor"
             /\ UNCHANGED <<call, ret>>
        ELSE Recorded(result)
    /\ InvokeFrame

FunctionFail ==
    /\ op = "invoke"
    /\ pc = "function"
    /\ Except("function")
    /\ InvokeFrame

\* tcall of the post-processor returns (lines 77-81).
PostProcessorReturn ==
    /\ op = "invoke"
    /\ pc = "post_processor"
    /\ \E result \in Payloads : Recorded(result)
    /\ InvokeFrame

PostProcessorFail ==
    /\ op = "invoke"
    /\ pc = "post_processor"
    /\ Except("post_processor")
    /\ InvokeFrame

\* The awaited parser returns (lines 92, 95).
ParserReturn ==
    /\ op = "invoke"
    /\ pc = "parser"
    /\ \E parsed \in Payloads : ret' = Returned(parsed)
    /\ pc' = "done"
    /\ UNCHANGED <<call, res1>>
    /\ InvokeFrame

ParserFail ==
    /\ op = "invoke"
    /\ pc = "parser"
    /\ Except("parser")
    /\ InvokeFrame

InvokeNext ==
    \/ InvokeStart
    \/ PreProcessorReturn
    \/ PreProcessorFail
    \/ FunctionReturn
    \/ FunctionFail
    \/ PostProcessorReturn
    \/ PostProcessorFail
    \/ ParserReturn
    \/ ParserFail

InvokeSpec == InvokeInit /\ [][InvokeNext]_vars

----------------------------------------------------------------------------
\* System.update (core/communication/system.py) and the validation of a
\* sender or recipient it relies on.

Str(s) == [type |-> "str", val |-> s]

\* The roles a sender or recipient may name.
Roles == {Str("system"), Str("user"), Str("assistant"), Str("N/A")}

NoneValue == [type |-> "NoneType", val |-> "None"]

\* An Element, val its ln_id.
AnElement == [type |-> "Element", val |-> "ln1"]

\* The values handed in as sender or recipient: the roles, None, an Element,
\* and values of other kinds, two of them empty.
SenderRecipients ==
    Roles \cup {NoneValue, AnElement,
                [type |-> "int", val |-> "123"], [type |-> "int", val |-> "0"],
                [type |-> "dict", val |-> "{invalid: type}"],
                [type |-> "dict", val |-> "{}"]}

\* Python's truth value of v, the test of "if sender:".
Truthy(v) ==
    CASE v.type = "NoneType" -> FALSE
      [] v.type = "int"      -> v.val # "0"
      [] v.type = "dict"     -> v.val # "{}"
      [] v.type = "str"      -> v.val # ""
      [] OTHER               -> TRUE

validate_sender_recipient(v) ==
    CASE v \in Roles         -> [ok |-> TRUE, val |-> v]
      [] v.type = "NoneType" -> [ok |-> TRUE, val |-> Str("N/A")]
      [] v.type = "Element"  -> [ok |-> TRUE, val |-> Str(v.val)]
      [] OTHER               -> [ok |-> FALSE, val |-> v]

\* The system messages handed in and the content made of them.
SystemMessages == {NoneValue, Str("be brief"), Str("be kind")}

format_system_content(system) == [system |-> system]

\* Lines 86-87 and 88-89: an attribute after "if sender: self.sender =
\* validate_sender_recipient(sender)", or the exception of the validation.
StoredUnvalidated(current, given) ==
    IF Truthy(given) THEN [ok |-> TRUE, val |-> given]
                     ELSE [ok |-> TRUE, val |-> current]

Stored(current, given) ==
    IF Truthy(given) THEN validate_sender_recipient(given)
                     ELSE [ok |-> TRUE, val |-> current]

UpdateArgs == [system : SystemMessages, sender : SenderRecipients,
               recipient : SenderRecipients]

\* System(system, sender, recipient) for arguments __init__ accepts
\* (lines 65-72).
SystemInit ==
    /\ op = "system"
    /\ args = [system |-> NoneValue, sender |-> NoneValue, recipient |-> NoneValue]
    /\ pc = "ready"
    /\ members = {}
    /\ created = {}
    /\ branch = 0
    /\ res1 = NoneValue
    /\ task = [p \in SubPaths |-> NoTask]
    /\ calls = [p \in Paths |-> 0]
    /\ dumps = [p \in Paths |-> 0]
    /\ forks = 0
    /\ locked = FALSE
    /\ results = <<>>
    /\ arrival = <<>>
    /\ call = NoCall
    /\ \E system \in SystemMessages, sender, recipient \in {NoneValue, AnElement} :
        message = [role |-> "system",
                   content |-> format_system_content(system),
                   sender |-> IF Truthy(sender)
                              THEN validate_sender_recipient(sender).val
                              ELSE Str("system"),
                   recipient |-> IF Truthy(recipient)
                                 THEN validate_sender_recipient(recipient).val
                                 ELSE Str("N/A")]
    /\ contenders = NoContenders
    /\ ret = NoRet

SystemFrame ==
    UNCHANGED <<op, members, created, branch, task, calls, dumps, forks, locked,
                results, arrival, call, contenders>>

\* update(system, sender, recipient), lines 82-89, statement by statement:
\* what was assigned before a validation raises stays assigned.
SystemUpdate ==
    /\ op = "system"
    /\ pc = "ready"
    /\ \E a \in UpdateArgs :
        LET content == IF Truthy(a.system) THEN format_system_content(a.system)
                                           ELSE message.content
            sender == Stored(message.sender, a.sender)
            recipient == Stored(message.recipient, a.recipient)
        IN  /\ args' = a
            /\ IF ~sender.ok
               THEN /\ message' = [message EXCEPT !.content = content]
                    /\ ret' = Error(ValueError)
               ELSE IF ~recipient.ok
               THEN /\ message' = [message EXCEPT !.content = content,
                                                  !.sender = sender.val]
                    /\ ret' = Error(ValueError)
               ELSE /\ message' = [message EXCEPT !.content = content,
                                                  !.sender = sender.val,
                                                  !.recipient = recipient.val]
                    /\ ret' = Returned(NoneValue)
    /\ pc' = "updated"
    /\ UNCHANGED res1
    /\ SystemFrame

\* validate_sender_recipient(value) called on its own, as its test does.
ValidateCall ==
    /\ op = "system"
    /\ pc = "ready"
    /\ \E value \in SenderRecipients :
        /\ res1' = value
        /\ LET v == validate_sender_recipient(value)
           IN  ret' = IF v.ok THEN Returned(v.val) ELSE Error(ValueError)
    /\ pc' = "validated"
    /\ UNCHANGED <<args, message>>
    /\ SystemFrame

SystemNext ==
    \/ SystemUpdate
    \/ ValidateCall

SystemSpec == SystemInit /\ [][SystemNext]_vars

----------------------------------------------------------------------------
\* Two brainstorm calls on one session, as far as `async with
\* session.branches` (brainstorm.py 146) is concerned.  Each contender is
\* brainstorm reduced to its suspension points, its forks and the region;
\* `locked` is the lock of session.branches and `forks` counts the
\* Session.split calls of both.

Contenders == {1, 2}

NoRun == [st |-> "none", ready |-> 0, inflight |-> 0, failed |-> FALSE]

\* A brainstorm call before its first step.
NewContender(auto) ==
    [pc |-> "start", auto_run |-> auto, res1 |-> NoResponse,
     runs |-> [i \in Idx |-> NoRun], planned |-> 0, forks |-> 0,
     entered |-> FALSE, failed |-> FALSE]

LockInit ==
    /\ op = "brainstorm"
    /\ args = [session |-> "given"]
    /\ pc = "contend"
    /\ members = ExistingBranches
    /\ created = ExistingBranches
    /\ branch = 0
    /\ res1 = NoResponse
    /\ task = [p \in SubPaths |-> NoTask]
    /\ calls = [p \in Paths |-> 0]
    /\ dumps = [p \in Paths |-> 0]
    /\ forks = 0
    /\ locked = FALSE
    /\ results = <<>>
    /\ arrival = <<>>
    /\ call = NoCall
    /\ message = NoMessage
    /\ contenders \in [Contenders -> {NewContender(auto) : auto \in BOOLEAN}]
    /\ ret = NoRet

LockFrame ==
    UNCHANGED <<op, args, pc, members, created, branch, res1, task, calls,
                dumps, results, arrival, call, message, ret>>

\* Mutant: the region is released when it is left by return only.
ReleasedOnReturn(failed) == ~failed

\* Leaving `async with session.branches` (lines 146-161) releases it, by
\* return and by raise alike.
ReleasedOnExit(failed) == TRUE

\* Contender c enters the region with the initial result r (lines 146-161):
\* without nested instructions it leaves the region in the same step.
Enter(c, r) ==
    IF r.has /\ r.n > 0
    THEN /\ contenders' = [contenders EXCEPT
                ![c].pc = "fanout", ![c].entered = TRUE, ![c].res1 = r,
                ![c].planned = r.n,
                ![c].runs = [i \in Idx |-> IF i <= r.n
                                           THEN [NoRun EXCEPT !.st = "ready"]
                                           ELSE NoRun]]
         /\ locked' = TRUE
    ELSE /\ contenders' = [contenders EXCEPT
                ![c].pc = "done", ![c].entered = TRUE, ![c].res1 = r]
         /\ locked' = ~ReleasedOnExit(FALSE)

\* brainstorm up to its initial operate call (lines 108-131).
ContenderStart(c) ==
    /\ contenders[c].pc = "start"
    /\ contenders' = [contenders EXCEPT ![c].pc = "initial"]
    /\ UNCHANGED <<locked, forks>>
    /\ LockFrame

\* The initial operate call returns (lines 131-146): without auto_run the
\* result is returned, otherwise the region is entered if it is free and
\* waited for if it is not.
ContenderInitialReturn(c) ==
    /\ contenders[c].pc = "initial"
    /\ \E r \in Responses :
        /\ r.n <= MaxForks
        /\ IF ~contenders[c].auto_run
           THEN /\ contenders' = [contenders EXCEPT ![c].pc = "done", ![c].res1 = r]
                /\ UNCHANGED locked
           ELSE IF locked
           THEN /\ contenders' = [contenders EXCEPT ![c].pc = "acquire", ![c].res1 = r]
                /\ UNCHANGED locked
           ELSE Enter(c, r)
    /\ UNCHANGED forks
    /\ LockFrame

ContenderInitialFail(c) ==
    /\ contenders[c].pc = "initial"
    /\ contenders' = [contenders EXCEPT ![c].pc = "done", ![c].failed = TRUE]
    /\ UNCHANGED <<locked, forks>>
    /\ LockFrame

\* The region has become free and the waiting contender enters it.
ContenderAcquire(c) ==
    /\ contenders[c].pc = "acquire"
    /\ ~locked
    /\ Enter(c, contenders[c].res1)
    /\ UNCHANGED forks
    /\ LockFrame

\* run(ins_) of brainstorm starts: session.split, then operate (137-141).
ContenderRunStart(c, i) ==
    /\ contenders[c].pc = "fanout"
    /\ contenders[c].runs[i].st = "ready"
    /\ contenders' = [contenders EXCEPT ![c].runs[i].st = "inflight",
                                        ![c].forks = @ + 1]
    /\ forks' = forks + 1
    /\ UNCHANGED locked
    /\ LockFrame

\* A first-level operate call returns (lines 51-59): its nested instructions
\* are handed to alcall, or its result is returned.
ContenderRunReturn(c, i) ==
    /\ contenders[c].runs[i].st = "inflight"
    /\ \E r \in Responses :
        IF Expands(contenders[c].auto_run, r)
        THEN /\ contenders[c].planned + r.n <= MaxForks
             /\ contenders' = [contenders EXCEPT ![c].runs[i].st = "nested",
                                                 ![c].runs[i].ready = r.n,
                                                 ![c].planned = @ + r.n]
        ELSE contenders' = [contenders EXCEPT ![c].runs[i].st = "done"]
    /\ UNCHANGED <<locked, forks>>
    /\ LockFrame

ContenderRunFail(c, i) ==
    /\ contenders[c].runs[i].st = "inflight"
    /\ contenders' = [contenders EXCEPT ![c].runs[i].st = "failed"]
    /\ UNCHANGED <<locked, forks>>
    /\ LockFrame

\* run(ins_) of run_instruct starts: session.split, then operate (46-51).
ContenderNestedStart(c, i) ==
    /\ contenders[c].runs[i].st = "nested"
    /\ contenders[c].runs[i].ready > 0
    /\ contenders' = [contenders EXCEPT ![c].runs[i].ready = @ - 1,
                                        ![c].runs[i].inflight = @ + 1,
                                        ![c].forks = @ + 1]
    /\ forks' = forks + 1
    /\ UNCHANGED locked
    /\ LockFrame

\* A second-level operate call returns or raises (lines 51-69).
ContenderNestedEnd(c, i) ==
    /\ contenders[c].runs[i].st = "nested"
    /\ contenders[c].runs[i].inflight > 0
    /\ \E fails \in BOOLEAN :
        contenders' = [contenders EXCEPT
            ![c].runs[i].inflight = @ - 1,
            ![c].runs[i].failed = @ \/ fails]
    /\ UNCHANGED <<locked, forks>>
    /\ LockFrame

\* run_instruct resumes from alcall (lines 59-67) once every nested run has
\* ended.
ContenderRunGather(c, i) ==
    /\ contenders[c].runs[i].st = "nested"
    /\ contenders[c].runs[i].ready = 0
    /\ contenders[c].runs[i].inflight = 0
    /\ contenders' = [contenders EXCEPT
            ![c].runs[i].st = IF contenders[c].runs[i].failed THEN "failed" ELSE "done"]
    /\ UNCHANGED <<locked, forks>>
    /\ LockFrame

\* brainstorm resumes from alcall (lines 149-161) once every run has ended
\* and leaves the region, by return or by raise.
ContenderGather(c) ==
    /\ contenders[c].pc = "fanout"
    /\ \A i \in Idx : contenders[c].runs[i].st \in {"none", "done", "failed"}
    /\ LET failed == \E i \in Idx : contenders[c].runs[i].st = "failed"
       IN  /\ contenders' = [contenders EXCEPT ![c].pc = "done", ![c].failed = failed]
           /\ locked' = ~ReleasedOnExit(failed)
    /\ UNCHANGED forks
    /\ LockFrame

ContenderStep(c) ==
    \/ ContenderStart(c)
    \/ ContenderInitialReturn(c)
    \/ ContenderInitialFail(c)
    \/ ContenderAcquire(c)
    \/ \E i \in Idx : ContenderRunStart(c, i)
    \/ \E i \in Idx : ContenderRunReturn(c, i)
    \/ \E i \in Idx : ContenderRunFail(c, i)
    \/ \E i \in Idx : ContenderNestedStart(c, i)
    \/ \E i \in Idx : ContenderNestedEnd(c, i)
    \/ \E i \in Idx : ContenderRunGather(c, i)
    \/ ContenderGather(c)

LockNext == \E c \in Contenders : ContenderStep(c)

\* The event loop runs every task that can run, and every operate call
\* returns or raises.
LockSpec == LockInit /\ [][LockNext]_vars /\ \A c \in Contenders : WF_vars(ContenderStep(c))

----------------------------------------------------------------------------
Next ==
    \/ BrainstormStart
    \/ BrainstormInitialReturn
    \/ BrainstormInitialFail
    \/ \E p \in SubPaths : RunStart(p)
    \/ \E p \in SubPaths : RunInstructReturn(p)
    \/ \E p \in SubPaths : RunInstructFail(p)
    \/ \E p \in SubPaths : RunInstructGather(p)
    \/ BrainstormGather
    \/ PlanStart
    \/ PlanInitialReturn
    \/ PlanInitialFail
    \/ PlanStepReturn
    \/ PlanStepFail

Spec == Init /\ [][Next]_vars

----------------------------------------------------------------------------
\* Properties.

\* The results of the n nested instructions of p, in input order.
InOrder(p, n) == [i \in 1..n |-> p \o <<i>>]

\* operate calls in flight on branch b.
InFlightOn(b) ==
    (IF pc = "initial" /\ branch = b THEN 1 ELSE 0)
    + Cardinality({p \in SubPaths : task[p].st = "inflight" /\ task[p].branch = b})

\* The runs that have forked their branch.
Started == {p \in SubPaths : task[p].st \notin {"none", "ready"}}

\* The members of the session when brainstorm begins its fan-out.
MembersBeforeFanOut == BrainstormResolve(args, InitMembers(args), ExistingBranches).members

\* C1: run_instruct with auto_run=True whose operate result carries a
\* non-empty list of nested instructions returns the list made of that
\* result followed by the results of the nested instructions.
C1_ParentResultFirst ==
    \A p \in SubPaths :
        (op = "brainstorm" /\ task[p].st = "done" /\ Expands(task[p].auto, task[p].res))
            => task[p].out = List(<<p>> \o InOrder(p, task[p].res.n))

\* C2: brainstorm with auto_run=True whose initial result has n nested
\* instructions, none of whose results is expanded further, returns
\* [initial result, r1, ..., rn] in input order, whatever the order in which
\* the n runs ended.
C2_BrainstormInputOrder ==
    (/\ op = "brainstorm"
     /\ args.auto_run
     /\ ret.kind = "value"
     /\ res1.has /\ res1.n > 0
     /\ \A i \in 1..res1.n : ~Expands(task[<<i>>].auto, task[<<i>>].res))
        => ret.val = List(<<<<>>>> \o InOrder(<<>>, res1.n))

\* C2 witness: brainstorm returned the results of two runs of which the
\* second ended first.
C2_Witness ==
    /\ op = "brainstorm"
    /\ args.auto_run
    /\ ret.kind = "value"
    /\ res1.has /\ res1.n = 2
    /\ arrival = <<<<2>>, <<1>>>>
    /\ ret.val = List(<<<<>>, <<1>>, <<2>>>>)

\* C3: no branch has two operate calls in flight, every run operates on a
\* branch of its own that is none of the branches it was forked from, and
\* the branch a run was forked from has no operate call in flight.
C3_OneCallPerBranch ==
    op = "brainstorm" =>
        /\ \A b \in created : InFlightOn(b) <= 1
        /\ \A p \in Started :
            /\ task[p].branch # SourceBranch(p)
            /\ task[p].st = "inflight" => InFlightOn(SourceBranch(p)) = 0
            /\ \A q \in Started : p # q => task[p].branch # task[q].branch

\* C3 witness: two sibling runs have their operate calls in flight at once.
C3_Witness ==
    /\ op = "brainstorm"
    /\ task[<<1>>].st = "inflight"
    /\ task[<<2>>].st = "inflight"

\* C4: the N runs that have called Session.split have added exactly N
\* members to the session, pairwise distinct and distinct from the branch
\* each was forked from, in every interleaving.
C4_SplitRegistersAll ==
    (op = "brainstorm" /\ pc \in {"gather", "done"}) =>
        /\ forks = Cardinality(Started)
        /\ Cardinality(members \ MembersBeforeFanOut) = Cardinality(Started)
        /\ members \ MembersBeforeFanOut = {task[p].branch : p \in Started}
        /\ \A p \in Started :
            /\ task[p].branch \notin MembersBeforeFanOut
            /\ task[p].branch # SourceBranch(p)
            /\ \A q \in Started : p # q => task[p].branch # task[q].branch

\* C4 witness: three runs have forked, the second sibling before the first
\* and a run of the second level among them.
C4_Witness ==
    /\ op = "brainstorm"
    /\ forks = 3
    /\ task[<<2>>].st # "none"
    /\ task[<<1>>].st \notin {"none", "ready"}
    /\ task[<<2>>].st \notin {"none", "ready"}
    /\ task[<<2>>].branch < task[<<1>>].branch
    /\ \E p \in SubPaths : Len(p) = 2 /\ p \in Started

\* C5: brainstorm with auto_run=False forks nothing, issues no operate call
\* but the initial one and returns the initial result alone.
C5_NoAutoRunNoFork ==
    (op = "brainstorm" /\ ~args.auto_run) =>
        /\ forks = 0
        /\ members = MembersBeforeFanOut \/ pc = "start"
        /\ calls[<<>>] <= 1
        /\ \A p \in SubPaths : calls[p] = 0 /\ task[p].st = "none"
        /\ ret.kind = "value" => ret.val = Single(<<>>)

\* C5 witness: brainstorm with auto_run=False has returned an initial result
\* that carries nested instructions.
C5_Witness ==
    /\ op = "brainstorm"
    /\ ~args.auto_run
    /\ ret.kind = "value"
    /\ res1.has /\ res1.n = 2

\* C6: plan with auto_run=True whose initial result has n nested
\* instructions returns the list of the initial result and the n step
\* results in input order; the steps run one after another on plan's one
\* branch, and nothing is forked.
C6_PlanSequential ==
    op = "plan" =>
        /\ forks = 0
        /\ \A b \in created : InFlightOn(b) <= 1
        /\ \A p \in SubPaths :
            task[p].st # "none" =>
                /\ Len(p) = 1
                /\ task[p].branch = branch
                /\ \A i \in 1..(p[1] - 1) : task[<<i>>].st = "done"
                /\ task[p].st = "inflight" =>
                       \A q \in SubPaths : q # p => task[q].st \in {"none", "done"}
        /\ (args.auto_run /\ ret.kind = "value" /\ res1.has) =>
               /\ ret.val = List(<<<<>>>> \o InOrder(<<>>, res1.n))
               /\ Len(ret.val.items) = 1 + res1.n

\* C6 witness: plan has returned the results of two steps.
C6_Witness ==
    /\ op = "plan"
    /\ args.auto_run
    /\ ret.kind = "value"
    /\ res1.has /\ res1.n = 2
    /\ Len(ret.val.items) = 3

\* C7: when brainstorm or plan raises its argument validation error, no
\* branch has been created or registered and no operate call issued.
C7_ValidationBeforeBranches ==
    (op \in {"brainstorm", "plan"} /\ ret.kind = "error" /\ ret.err = ValueError) =>
        /\ created = ExistingBranches
        /\ members = InitMembers(args)
        /\ \A p \in Paths : calls[p] = 0

\* C8: given a session and a branch that is not a member of it, brainstorm
\* and plan do not fail with the lookup error: they go on with a new branch
\* registered in the session.
C8_LookupRecovered ==
    (/\ op \in {"brainstorm", "plan"}
     /\ args.session = "given" /\ args.branch = "foreign"
     /\ pc # "start") =>
        /\ ~(ret.kind = "error" /\ ret.err = LookupError)
        /\ InstructValid(args) =>
               /\ branch \notin ExistingBranches
               /\ branch \in members

\* C9: no operate call is issued twice for an instruction, and an operation
\* in which an operate call failed ends in the failure of an operate call
\* that failed, with no result.
C9_FailurePropagates ==
    /\ \A p \in Paths : calls[p] <= 1
    /\ (pc = "done" /\ \E p \in SubPaths : task[p].st = "failed") =>
           /\ ret.kind = "error"
           /\ ret.val = NoValue
           /\ \E p \in SubPaths :
               /\ task[p].st = "failed"
               /\ task[p].err = OperateError(p)
               /\ ret.err = OperateError(p)
    /\ (ret.kind = "error" /\ ret.err[1] = "OperateError") =>
           /\ pc = "done"
           /\ ret.val = NoValue
           /\ calls[ret.err[2]] = 1
           /\ ret.err[2] # <<>> => task[ret.err[2]].st = "failed"

\* C9 witness: one sibling run failed, the other ended well, and brainstorm
\* has ended in the failure.
C9_Witness ==
    /\ op = "brainstorm"
    /\ pc = "done"
    /\ task[<<1>>].st = "done"
    /\ task[<<2>>].st = "failed"
    /\ ret = Error(OperateError(<<2>>))

\* Choices that are (key, representation) pairs as they are (a dict, an Enum
\* class) or a list, tuple or set of strings only, of models only or of
\* model classes only.
Uniform(ch) ==
    \/ ch.coll \in {"dict", "Enum"}
    \/ /\ ch.coll \in Iterables
       /\ \E t \in {"str", "BaseModel", "class"} :
              \A i \in 1..Len(ch.types) : ch.types[i] = t

\* C10: select given choices that parse_to_representation cannot normalize
\* raises the normalization error and issues no operate call.
C10_UnnormalizedNoCall ==
    (op = "select" /\ pc # "start" /\ ~Uniform(args.choices)) =>
        /\ pc = "done"
        /\ ret = Error(NotImplementedError)
        /\ \A p \in Paths : calls[p] = 0

\* C10 witness: select has been called with a list of a string and an
\* unrelated object, and has ended.
C10_Witness ==
    /\ op = "select"
    /\ args.choices = [coll |-> "list", types |-> <<"str", "other">>]
    /\ pc = "done"

\* C11: for a list of string choices the selected list select returns has
\* the length of the raw list, and its i-th element is a member of the
\* choices that no other choice is closer to the i-th raw token than; the
\* raw token "gren" over red, green, blue becomes "green".
C11_NearestChoice ==
    (/\ op = "select"
     /\ ret.kind = "value"
     /\ args.choices.coll = "list"
     /\ IsSameDtype(args.choices.types, "str")) =>
        LET raw == res1.selected
            out == ret.val.items
            keys == Names(args.choices)
        IN  /\ ret.val.list
            /\ Len(out) = Len(raw)
            /\ \A i \in 1..Len(raw) :
                /\ out[i].kind = "key"
                /\ \E k \in 1..Len(keys) : keys[k] = out[i].key
                /\ \A k \in 1..Len(keys) :
                       Distances[raw[i], out[i].key] <= Distances[raw[i], keys[k]]
                /\ (keys = <<Red, Green, Blue>> /\ raw[i] = Gren) => out[i].key = Green

\* C11 witness: select over red, green, blue has returned for the raw list
\* "gren", "rd".
C11_Witness ==
    /\ op = "select"
    /\ pc = "done"
    /\ args.choices = [coll |-> "list", types |-> <<"str", "str", "str">>]
    /\ res1.selected = <<Gren, <<"r", "d">>>>
    /\ ret.kind = "value"
    /\ ret.val.items = <<[kind |-> "key", key |-> Green], [kind |-> "key", key |-> Red]>>

\* C12: the selected list of the model select returns never has more than
\* max_num_selections elements.
C12_AtMostMaxSelections ==
    (op = "select" /\ ret.kind = "value") =>
        Len(ret.val.items) <= args.max_num_selections

\* C13: brainstorm called with return_session=True returns the pair of its
\* results and the session whenever it returns.
C13_SessionReturned ==
    (op = "brainstorm" /\ args.return_session /\ ret.kind = "value") => ret.session


\* C14: whenever the function or one of its processing steps failed, invoke
\* has raised an exception to its caller.
C14_FailureRaised ==
    (op = "invoke" /\ pc = "done" /\ call.execution_error # None) =>
        ret.kind = "raised"

\* C19: after invoke the record is consistent: COMPLETED exactly when the
\* response is set and the error is not, FAILED exactly when the error is set
\* and the response is not.
C19_OutcomeConsistent ==
    (op = "invoke" /\ pc = "done") =>
        /\ call.status = "COMPLETED" <=>
              (call.execution_response # None /\ call.execution_error = None)
        /\ call.status = "FAILED" <=>
              (call.execution_error # None /\ call.execution_response = None)

\* A value that is neither a role, nor None, nor an Element.
Invalid(v) ==
    /\ v.type \notin {"NoneType", "Element"}
    /\ ~(v.type = "str" /\ v.val \in {"system", "user", "assistant", "N/A"})

\* The attribute update leaves for a valid given value.
Expected(v) == IF v.type = "Element" THEN Str(v.val) ELSE v

\* C15: validate_sender_recipient returns a role unchanged, N/A for None and
\* the ln_id of an Element, and raises ValueError for anything else; update
\* with an invalid non-empty sender or recipient raises ValueError and does not
\* store the value, and a valid non-empty one that is reached is stored.
C15_SenderRecipientValidated ==
    /\ (op = "system" /\ pc = "validated") =>
          /\ Invalid(res1) <=> ret.kind = "error"
          /\ Invalid(res1) => ret.err = ValueError
          /\ (res1.type = "str" /\ ~Invalid(res1)) => ret.val = res1
          /\ res1.type = "NoneType" => ret.val = Str("N/A")
          /\ res1.type = "Element" => ret.val = Str(res1.val)
    /\ (op = "system" /\ pc = "updated") =>
          /\ \A f \in {"sender", "recipient"} :
                /\ (Invalid(args[f]) /\ args[f].val \notin {"0", "{}"}) =>
                      /\ ret.kind = "error"
                      /\ ret.err = ValueError
                /\ Invalid(args[f]) => message[f] # args[f]
                /\ message[f].type = "str"
          /\ ret.kind = "returned" =>
                \A f \in {"sender", "recipient"} :
                    args[f].type \notin {"NoneType", "int", "dict"} =>
                        message[f] = Expected(args[f])

C15_Witness ==
    /\ op = "system" /\ pc = "updated"
    /\ args.sender = Str("user")
    /\ args.recipient = [type |-> "dict", val |-> "{invalid: type}"]
    /\ ret.kind = "error"
    /\ message.sender = Str("user")
    /\ message.recipient = Str("ln1")

\* The nested instructions of p whose run has been set up.
Children(p) == {q \in SubPaths : Len(q) = Len(p) + 1 /\ Parent(q) = p /\ task[q].st # "none"}

\* C16: every run spawned by run_instruct has auto_run False; a run with
\* auto_run False spawns nothing and returns its single operate result even
\* when that result carries nested instructions; no run two levels below the
\* initial branch expands.
C16_OneLevelPerRun ==
    op = "brainstorm" =>
        \A p \in SubPaths :
            /\ (Len(p) >= 2 /\ task[p].st # "none") => ~task[p].auto
            /\ (task[p].st # "none" /\ ~task[p].auto) =>
                  /\ Children(p) = {}
                  /\ task[p].st # "gather"
                  /\ task[p].st = "done" => task[p].out = Single(p)
            /\ (Len(p) >= 2) => task[p].st # "gather"

C16_Witness ==
    /\ op = "brainstorm"
    /\ task[<<1, 1>>].st = "done"
    /\ task[<<1, 1>>].res.has
    /\ task[<<1, 1>>].res.n > 0
    /\ task[<<1, 1>>].out = Single(<<1, 1>>)
    /\ ~task[<<1, 1>>].auto

\* The initial operate call of the operation has returned a result.
InitialCompleted ==
    /\ calls[<<>>] = 1
    /\ pc # "initial"
    /\ ~(ret.kind = "error" /\ ret.err = OperateError(<<>>))

\* C17: the log of the branch is flushed exactly once for every completed
\* operate call, the initial call of the operation included.
C17_DumpPerCompletedCall ==
    op \in {"brainstorm", "plan"} =>
        /\ dumps[<<>>] = IF InitialCompleted THEN 1 ELSE 0
        /\ \A p \in SubPaths : dumps[p] <= calls[p]
        /\ \A p \in SubPaths :
              /\ task[p].st \in {"gather", "done"} => dumps[p] = 1
              /\ task[p].st \in {"none", "ready", "inflight"} => dumps[p] = 0

\* The operate calls issued on branch b.
CallsOn(b) ==
    (IF branch = b THEN calls[<<>>] ELSE 0)
    + Cardinality({p \in SubPaths : calls[p] > 0 /\ task[p].branch = b})

RECURSIVE NestedCount(_)
\* The nested instructions carried by the first k first-level results.
NestedCount(k) == IF k = 0 THEN 0 ELSE NestedCount(k - 1) + task[<<k>>].res.n

RECURSIVE TotalCalls(_)
\* The operate calls issued for the instructions in S.
TotalCalls(S) ==
    IF S = {} THEN 0
    ELSE LET p == CHOOSE q \in S : TRUE IN calls[p] + TotalCalls(S \ {p})

\* C20: in a completed brainstorm with auto_run=True every branch made by
\* Session.split has received exactly one operate call, and the operate calls
\* number 1 + forks = 1 + n + the nested instructions of the n first-level
\* results.
C20_CallsCountForks ==
    (op = "brainstorm" /\ pc = "done" /\ ret.kind = "value" /\ args.auto_run) =>
        /\ \A p \in SubPaths : calls[p] <= 1
        /\ \A b \in created \ (ExistingBranches \cup {branch}) : CallsOn(b) = 1
        /\ Cardinality(created \ (ExistingBranches \cup {branch})) = forks
        /\ TotalCalls(Paths) = 1 + forks
        /\ forks = res1.n + NestedCount(res1.n)

C20_Witness ==
    /\ op = "brainstorm" /\ pc = "done" /\ ret.kind = "value" /\ args.auto_run
    /\ res1.n = 2
    /\ task[<<1>>].res.n = 1
    /\ task[<<2>>].res.n = 0
    /\ forks = 3
    /\ TotalCalls(Paths) = 4

\* Contender c is inside the region.
InRegion(c) == contenders[c].pc = "fanout"

\* A step in which contender c forks a branch is taken inside its region
\* while no other contender is inside.
ForksInsideRegion ==
    \A c \in Contenders :
        contenders'[c].forks # contenders[c].forks =>
            /\ InRegion(c) /\ locked
            /\ \A d \in Contenders \ {c} : ~InRegion(d)

\* C18: the region around the fan-out is released on every exit, also when
\* an operate call of the fan-out fails, so a brainstorm waiting for it
\* eventually enters it; while it is held no other brainstorm forks.
C18_RegionReleased ==
    /\ [][op = "brainstorm" /\ pc = "contend" => ForksInsideRegion]_vars
    /\ []((op = "brainstorm" /\ pc = "contend") =>
            /\ locked <=> \E c \in Contenders : InRegion(c)
            /\ \A c, d \in Contenders : (InRegion(c) /\ InRegion(d)) => c = d)
    /\ \A c \in Contenders :
            (pc = "contend" /\ contenders[c].pc = "acquire") ~> contenders[c].entered

C18_Witness ==
    /\ op = "brainstorm" /\ pc = "contend"
    /\ contenders[1].pc = "done" /\ contenders[1].failed /\ contenders[1].entered
    /\ contenders[1].forks > 0
    /\ InRegion(2) /\ contenders[2].forks > 0
    /\ locked

============================================================================
